---- MODULE Spec2Model ----
(***************************************************************************)
(* A model of ComponentManager (src/src/lib/component_manager.ts): the     *)
(* download / verify / unzip / normalize pipeline, the version decision,   *)
(* the third-party index path cache and URL resolution; and of the         *)
(* permission dialog and the note action sheet (src/unnamed/part_000).     *)
(*                                                                         *)
(* The filesystem is three paths per identifier:                           *)
(*   tmpZip[id]      <Documents>/<id>.zip          (tmpLocation)           *)
(*   installDir[id]  <Documents>/components/<id>   (pathForComponent)      *)
(*   tmpMove[id]     <Documents>/<id>              (tmpMovePath)           *)
(* A directory is [exists, files]; files is a set of [path, data] with     *)
(* path a sequence of names relative to the directory.                     *)
(***************************************************************************)
EXTENDS Integers, Sequences, FiniteSets, TLC

VARIABLES
  tmpZip,                \* identifier -> bytes of the temp archive, or NoFile
  installDir,            \* identifier -> directory
  tmpMove,               \* identifier -> directory
  thirdPartyIndexPaths,  \* identifier -> cached index path, or Undefined
  staticServer,          \* "unset" | "running" | "stopped"
  staticServerUrl,       \* Undefined, or the url server.start() resolved to
  lifecycle,             \* "constructed" | "initialized" | "deinit" | "deinitThrew"
  components,            \* the SNComponent items the application holds
  dl,                    \* call slot -> the downloadComponentOffline call in it
  obs,                   \* what the operation that has just returned returned
  startLog,              \* what createServer has done: starts, alerts, errors logged
  dialog,                \* the presentPermissionsDialog call and its callback
  note,                  \* the flags of the note the action sheet is mounted for
  listedSections,        \* the extension sections the action sheet holds
  sheet,                 \* what the action callback that has just run did
  listedExtensions,      \* the uuids of the extensions useListedExtensions gave
  shouldReloadListedSections,  \* the reload-pending flag
  reloadListedExtensionUuid,   \* Undefined, or the uuid of the extension last run
  reloads,               \* the reloadListedSections calls awaiting their loads
  extensionActions,      \* uuid -> the running and error marks of its action
  exec                   \* call slot -> the executeAction call in it

vars == <<tmpZip, installDir, tmpMove, thirdPartyIndexPaths, staticServer,
          staticServerUrl, lifecycle, components, dl, obs, startLog, dialog,
          note, listedSections, sheet, listedExtensions,
          shouldReloadListedSections, reloadListedExtensionUuid, reloads,
          extensionActions, exec>>

\* The extension sections of the action sheet and the actions run from them.
listedVars ==
  <<listedExtensions, shouldReloadListedSections, reloadListedExtensionUuid,
    reloads, extensionActions, exec>>

\* The state of the user interface: the permission dialog and the action sheet.
uiVars == <<dialog, note, listedSections, sheet, listedVars>>

fsVars == <<tmpZip, installDir, tmpMove>>

(***************************************************************************)
(* Values                                                                  *)
(***************************************************************************)
Undefined == "<undefined>"
NoFile == "<no file>"

\* ComponentLoadingError, plus the two other ways a call ends.
FailedDownload == "FailedDownload"
ChecksumMismatch == "ChecksumMismatch"
DoesntExist == "DoesntExist"
Unknown == "Unknown"
Success == "undefined"
Threw == "threw"

\* Identifiers.  IdRegA and IdRegB are in Features; IdRegB has no entry in
\* checksums.json.  The others are third-party.
IdRegA == "org.registry.editor"
IdRegB == "org.registry.nochecksum"
IdTp == "com.third.editor"
IdPlain == "com.third.hosted"
IdTheme == "system.theme"
Ids == {IdRegA, IdRegB, IdTp, IdPlain, IdTheme}

\* Features (@standardnotes/features): identifier, download_url, version,
\* index_path.
Features ==
  { [identifier |-> IdRegA, download_url |-> "https://registry/editor.zip",
     version |-> "1.3.0", index_path |-> "dist/index.html"],
    [identifier |-> IdRegB, download_url |-> "https://registry/nochecksum.zip",
     version |-> "1.3.0", index_path |-> "index.html"] }

\* checksums.json: identifier -> base64 digest; Undefined when there is no entry.
\* It holds an entry for IdTp although Features does not list that identifier.
FeatureChecksums(identifier) ==
  CASE identifier = IdRegA -> "AAA="
    [] identifier = IdTp -> "ZZZ="
    [] OTHER -> Undefined

\* SNComponent values handed to the manager.
Component(identifier, url, version, isTheme, isSystemTheme, variables) ==
  [identifier |-> identifier, download_url |-> url, version |-> version,
   isTheme |-> isTheme, isSystemTheme |-> isSystemTheme, variables |-> variables]

\* The items of an application whose editors come from the registry, and of one
\* whose editors and themes are third-party or built in.
RegistryComponents ==
  { Component(IdRegA, Undefined, Undefined, FALSE, FALSE, "none"),
    Component(IdRegA, "https://mirror/editor.zip", "1.2.0", FALSE, FALSE, "none"),
    Component(IdRegB, Undefined, Undefined, FALSE, FALSE, "none"),
    Component(IdTheme, Undefined, Undefined, TRUE, TRUE, "dark") }

ThirdPartyComponents ==
  { Component(IdTp, "https://third/editor.zip", "1.2.0", FALSE, FALSE, "none"),
    Component(IdTp, "https://third/editor.zip", "1.3.0", FALSE, FALSE, "none"),
    Component(IdTp, "https://third/editor.zip", "1.10.0", FALSE, FALSE, "none"),
    Component(IdPlain, Undefined, "1.2.0", FALSE, FALSE, "none"),
    Component(IdTheme, Undefined, Undefined, TRUE, TRUE, "dark"),
    Component(IdTheme, Undefined, Undefined, TRUE, TRUE, "light"),
    Component(IdTp, "https://third/editor.zip", "1.3.0", TRUE, TRUE, "dark"),
    Component(IdTp, "https://third/editor.zip", "1.3.0", TRUE, FALSE, "light") }

(***************************************************************************)
(* File contents                                                           *)
(***************************************************************************)
JsonV12 == "{\"version\":\"1.2.0\"}"
JsonV13 == "{\"version\":\"1.3.0\"}"
JsonV13Main == "{\"version\":\"1.3.0\",\"sn\":{\"main\":\"main.html\"}}"
JsonBad == "{oops"
Html == "<html/>"

File(path, data) == [path |-> path, data |-> data]

\* JSON.parse of a file's text: the object's version and sn.main, or a throw.
JSONParse(text) ==
  CASE text = JsonV12 -> [threw |-> FALSE, version |-> "1.2.0", main |-> Undefined]
    [] text = JsonV13 -> [threw |-> FALSE, version |-> "1.3.0", main |-> Undefined]
    [] text = JsonV13Main -> [threw |-> FALSE, version |-> "1.3.0", main |-> "main.html"]
    [] OTHER -> [threw |-> TRUE, version |-> Undefined, main |-> Undefined]

\* The archives a server can answer with, as opaque bytes.
ZipGenuine == "zip:genuine"        \* the registry's build of IdRegA, wrapped
ZipTampered == "zip:tampered"
ZipFlat12 == "zip:flat-1.2.0"
ZipWrap13 == "zip:wrapped-1.3.0"
ZipBadManifest == "zip:bad-manifest"
ArchiveBytes == {ZipGenuine, ZipTampered, ZipFlat12, ZipWrap13, ZipBadManifest}

\* What the server behind a download url can answer with.
Served(url) ==
  IF url = "https://third/editor.zip"
    THEN {ZipFlat12, ZipWrap13, ZipBadManifest}
    ELSE {ZipGenuine, ZipTampered}

\* What unzip finds in an archive.
ArchiveEntries(bytes) ==
  CASE bytes = ZipGenuine ->
         { File(<<"editor-1.3.0", "package.json">>, JsonV13),
           File(<<"editor-1.3.0", "dist", "index.html">>, Html) }
    [] bytes = ZipTampered ->
         { File(<<"package.json">>, JsonV13), File(<<"dist", "index.html">>, Html) }
    [] bytes = ZipFlat12 ->
         { File(<<"package.json">>, JsonV12), File(<<"index.html">>, Html) }
    [] bytes = ZipWrap13 ->
         { File(<<"plugin", "package.json">>, JsonV13Main),
           File(<<"plugin", "main.html">>, Html) }
    [] bytes = ZipBadManifest ->
         { File(<<"package.json">>, JsonBad), File(<<"index.html">>, Html) }
    [] OTHER -> {}

\* RNFS.readFile(path, 'base64') followed by crypto.sha256: the base64 digest of
\* the archive's base64 text.
Base64OfFile(bytes) == <<"base64", bytes>>

Sha256(text) ==
  CASE text = Base64OfFile(ZipGenuine) -> "AAA="
    [] text = Base64OfFile(ZipTampered) -> "BBB="
    [] text = Base64OfFile(ZipFlat12) -> "CCC="
    [] text = Base64OfFile(ZipWrap13) -> "DDD="
    [] text = Base64OfFile(ZipBadManifest) -> "EEE="
    [] OTHER -> "FFF="

(***************************************************************************)
(* Directories                                                             *)
(***************************************************************************)
NoDir == [exists |-> FALSE, files |-> {}]
Dir(files) == [exists |-> TRUE, files |-> files]

Paths(files) == {f.path : f \in files}

\* RNFS.readDir: the immediate children, each with its name and isDirectory().
ReadDir(dir) ==
  { [name |-> f.path[1], isDirectory |-> Len(f.path) > 1] : f \in dir.files }

\* The files below child `name`, relative to it.
Subtree(dir, name) ==
  { File(Tail(f.path), f.data) :
      f \in {g \in dir.files : g.path[1] = name /\ Len(g.path) > 1} }

Without(dir, name) ==
  Dir({f \in dir.files : f.path[1] # name})

\* unzip(src, dest): creates dest when missing and writes every entry below it,
\* overwriting a file already there and leaving every other file in place.
UnzipInto(dir, bytes) ==
  LET new == ArchiveEntries(bytes) IN
  Dir({f \in dir.files : f.path \notin Paths(new)} \cup new)

(***************************************************************************)
(* Registry lookups and the pure helpers of the manager                    *)
(***************************************************************************)
\* What `feature?.field` reads when Features.find found nothing.
NoFeature ==
  [identifier |-> Undefined, download_url |-> Undefined, version |-> Undefined,
   index_path |-> Undefined]

nativeFeatureForIdentifier(identifier) ==
  IF \E f \in Features : f.identifier = identifier
    THEN CHOOSE f \in Features : f.identifier = identifier
    ELSE NoFeature

isComponentThirdParty(identifier) ==
  nativeFeatureForIdentifier(identifier) = NoFeature

\* JavaScript's a || b on strings and undefined.
Or(a, b) == IF a # Undefined /\ a # "" THEN a ELSE b

\* As DownloadUrl, with the component's own url before the registry's.
DownloadUrlOwnFirst(component) ==
  Or(component.download_url,
     nativeFeatureForIdentifier(component.identifier).download_url)

\* nativeFeature?.download_url || component.package_info?.download_url
DownloadUrl(component) ==
  Or(nativeFeatureForIdentifier(component.identifier).download_url,
     component.download_url)

isComponentDownloadable(component) == DownloadUrl(component) # Undefined

\* nativeFeature?.version || component.package_info?.version
LatestVersion(component) ==
  Or(nativeFeatureForIdentifier(component.identifier).version, component.version)

\* major.minor.patch of a version string.
SemVerParts(version) ==
  CASE version = "1.2.0" -> <<1, 2, 0>>
    [] version = "1.3.0" -> <<1, 3, 0>>
    [] version = "1.10.0" -> <<1, 10, 0>>
    [] OTHER -> <<0, 0, 0>>

SemVerLess(a, b) ==
  \/ a[1] < b[1]
  \/ a[1] = b[1] /\ a[2] < b[2]
  \/ a[1] = b[1] /\ a[2] = b[2] /\ a[3] < b[3]

\* isRightVersionGreaterThanLeft (snjs)
isRightVersionGreaterThanLeft(left, right) ==
  SemVerLess(SemVerParts(left), SemVerParts(right))

\* getFile(identifier, relativePath) on a given install directory.
FileIn(dir, path) ==
  IF ~dir.exists THEN Undefined
  ELSE IF ~\E f \in dir.files : f.path = path THEN Undefined
  ELSE (CHOOSE f \in dir.files : f.path = path).data

getFile(identifier, path) == FileIn(installDir[identifier], path)

\* getDownloadedComponentPackageJsonFile: undefined, the parsed object, or a throw
\* of JSON.parse.
PackageJsonIn(dir) ==
  LET file == FileIn(dir, <<"package.json">>) IN
  IF file = Undefined \/ file = ""
    THEN [threw |-> FALSE, defined |-> FALSE, version |-> Undefined, main |-> Undefined]
    ELSE LET json == JSONParse(file) IN
         [threw |-> json.threw, defined |-> ~json.threw,
          version |-> json.version, main |-> json.main]

getDownloadedComponentPackageJsonFile(identifier) ==
  PackageJsonIn(installDir[identifier])

\* As doesComponentNeedDownload, with the two versions in the other order.
doesComponentNeedDownloadSwapped(component) ==
  LET existingPackageJson ==
        getDownloadedComponentPackageJsonFile(component.identifier)
  IN  IF DownloadUrl(component) = Undefined THEN Threw
      ELSE IF existingPackageJson.threw THEN Threw
      ELSE IF \/ ~existingPackageJson.defined
              \/ isRightVersionGreaterThanLeft(LatestVersion(component),
                                               existingPackageJson.version)
             THEN "true" ELSE "false"

\* doesComponentNeedDownload: "true", "false", or a throw.
doesComponentNeedDownload(component) ==
  LET existingPackageJson ==
        getDownloadedComponentPackageJsonFile(component.identifier)
  IN  IF DownloadUrl(component) = Undefined THEN Threw
      ELSE IF existingPackageJson.threw THEN Threw
      ELSE IF \/ ~existingPackageJson.defined
              \/ isRightVersionGreaterThanLeft(existingPackageJson.version,
                                               LatestVersion(component))
             THEN "true" ELSE "false"

getIndexFileRelativePath(identifier) ==
  IF ~isComponentThirdParty(identifier)
    THEN nativeFeatureForIdentifier(identifier).index_path
    ELSE thirdPartyIndexPaths[identifier]

\* `${componentPath}/${relativePath}`: the names along a relative path.
PathOf(relativePath) ==
  CASE relativePath = "index.html" -> <<"index.html">>
    [] relativePath = "main.html" -> <<"main.html">>
    [] relativePath = "dist/index.html" -> <<"dist", "index.html">>
    [] relativePath = "package.json" -> <<"package.json">>
    [] OTHER -> <<relativePath>>

\* getIndexFile: the index path it leaves in the cache for a third-party
\* identifier, and the file it returns (Undefined when there is none), or a
\* throw of the preload.
getIndexFile(identifier) ==
  LET packageJson == getDownloadedComponentPackageJsonFile(identifier)
      relativePath ==
        IF isComponentThirdParty(identifier)
          THEN Or(packageJson.main, "index.html")
          ELSE nativeFeatureForIdentifier(identifier).index_path
  IN  IF isComponentThirdParty(identifier) /\ packageJson.threw
        THEN [threw |-> TRUE, path |-> Undefined, file |-> Undefined]
        ELSE [threw |-> FALSE, path |-> relativePath,
              file |-> getFile(identifier, PathOf(relativePath))]

\* objectToCss(theme.mobileContent.variables)
objectToCss(variables) ==
  CASE variables = "dark" -> ":root{--bg:#000}"
    [] variables = "light" -> ":root{--bg:#fff}"
    [] OTHER -> ""

\* Base64.encodeURI and its inverse.
Base64EncodeURI(text) ==
  CASE text = ":root{--bg:#000}" -> "OnJvb3R7LS1iZzojMDAwfQ"
    [] text = ":root{--bg:#fff}" -> "OnJvb3R7LS1iZzojZmZmfQ"
    [] OTHER -> ""

Base64Decode(encoded) ==
  CASE encoded = "OnJvb3R7LS1iZzojMDAwfQ" -> ":root{--bg:#000}"
    [] encoded = "OnJvb3R7LS1iZzojZmZmfQ" -> ":root{--bg:#fff}"
    [] OTHER -> ""

\* `${x}` of a string or undefined.
TemplateString(x) == IF x = Undefined THEN "undefined" ELSE x

\* As urlForComponent, with the system theme test after the downloadable one.
urlForComponentDownloadableFirst(component) ==
  IF isComponentDownloadable(component)
    THEN LET indexFilePath == getIndexFileRelativePath(component.identifier) IN
         IF indexFilePath = Undefined \/ indexFilePath = ""
           THEN [threw |-> TRUE, url |-> <<>>]
           ELSE [threw |-> FALSE,
                 url |-> <<TemplateString(staticServerUrl), "/", component.identifier,
                           "/", indexFilePath>>]
  ELSE IF component.isTheme /\ component.isSystemTheme
    THEN [threw |-> FALSE,
          url |-> <<"data:text/css;base64,",
                    Base64EncodeURI(objectToCss(component.variables))>>]
  ELSE [threw |-> FALSE, url |-> <<"super.urlForComponent", component.identifier>>]

\* urlForComponent: [threw, url], the url as the sequence of its parts.
urlForComponent(component) ==
  IF component.isTheme /\ component.isSystemTheme
    THEN [threw |-> FALSE,
          url |-> <<"data:text/css;base64,",
                    Base64EncodeURI(objectToCss(component.variables))>>]
  ELSE IF ~isComponentDownloadable(component)
    THEN [threw |-> FALSE, url |-> <<"super.urlForComponent", component.identifier>>]
  ELSE LET indexFilePath == getIndexFileRelativePath(component.identifier) IN
       IF indexFilePath = Undefined \/ indexFilePath = ""
         THEN [threw |-> TRUE, url |-> <<>>]
         ELSE [threw |-> FALSE,
               url |-> <<TemplateString(staticServerUrl), "/", component.identifier, "/",
                         indexFilePath>>]

(***************************************************************************)
(* State after construction                                                *)
(***************************************************************************)
ServerUrl == "http://localhost:8080"

NoComponent == Component(Undefined, Undefined, Undefined, FALSE, FALSE, "none")

NoObs == [op |-> "none", comp |-> NoComponent, res |-> Undefined, url |-> <<>>]

Obs(op, component, res, url) ==
  [op |-> op, comp |-> component, res |-> res, url |-> url]

Calls == {1, 2}
SeqCalls == {1}

IdleCall ==
  [pc |-> "idle", id |-> Undefined, url |-> Undefined,
   result |-> Undefined, fault |-> "none", status |-> 0, fetched |-> NoFile,
   read |-> NoFile, checksum |-> Undefined, compared |-> FALSE,
   unzipped |-> NoFile, nested |-> Undefined, error |-> "none",
   installBefore |-> NoDir, prev |-> Undefined, own |-> Undefined]

\* Nothing started, nothing alerted, nothing logged.
NoStartLog == [starts |-> 0, alerts |-> 0, errors |-> 0]

\* No presentPermissionsDialog call has been made; `calls` is the sequence of
\* arguments dialog.callback has been invoked with.
IdleDialog == [pc |-> "idle", calls |-> <<>>]

\* An SNNote's flags.
Note(pinned, archived, locked, protected, trashed) ==
  [pinned |-> pinned, archived |-> archived, locked |-> locked,
   protected |-> protected, trashed |-> trashed, deleted |-> FALSE]

FreshNote == Note(FALSE, FALSE, FALSE, FALSE, FALSE)

\* No action callback has run.
NoPress == [key |-> "none", before |-> FreshNote, alerts |-> <<>>]

\* The uuids of the Listed extensions, in ascending order of the strings.
Uuids == <<"0a1f", "7c2e", "f3b0">>

UuidSet == {Uuids[i] : i \in DOMAIN Uuids}

\* The marks an action carries: running and error are "true", "false" or
\* Undefined.
Marks(running, error) == [running |-> running, error |-> error]

NoMarks == Marks(Undefined, Undefined)

\* The executeAction calls that can be in progress at once.
ExecSlots == {1, 2}

IdleExec == [pc |-> "idle", uuid |-> Undefined, response |-> "none"]

\* The hooks of NoteBottomSheet at mount: useState([]), useState(true),
\* useState(), and the extensions useListedExtensions gives.
SheetInit(extensions) ==
  /\ listedSections = <<>>
  /\ listedExtensions = extensions
  /\ shouldReloadListedSections = TRUE
  /\ reloadListedExtensionUuid = Undefined
  /\ reloads = {}
  /\ extensionActions = [u \in UuidSet |-> NoMarks]
  /\ exec = [s \in ExecSlots |-> IdleExec]

\* The manager after construction.
ManagerInit ==
  /\ tmpZip = [i \in Ids |-> NoFile]
  /\ installDir = [i \in Ids |-> NoDir]
  /\ tmpMove = [i \in Ids |-> NoDir]
  /\ thirdPartyIndexPaths = [i \in Ids |-> Undefined]
  /\ staticServer = "unset"
  /\ staticServerUrl = Undefined
  /\ lifecycle = "constructed"
  /\ dl = [c \in Calls |-> IdleCall]
  /\ obs = NoObs
  /\ startLog = NoStartLog

Init ==
  /\ ManagerInit
  /\ components \in {RegistryComponents, ThirdPartyComponents}
  /\ dialog = IdleDialog
  /\ note = FreshNote
  /\ sheet = NoPress
  /\ SheetInit(<<>>)

\* No downloadComponentOffline call is between its start and its return.  The
\* record of a returned call is kept until the next operation starts.
Quiet == \A c \in Calls : dl[c].pc \in {"idle", "done"}

(***************************************************************************)
(* initialize / createServer, deinit                                       *)
(***************************************************************************)
\* As Initialize, starting the server a second time when the first start
\* rejected.
InitializeRetrying ==
  /\ lifecycle = "constructed"
  /\ lifecycle' = "initialized"
  /\ \/ /\ staticServer' = "running"
        /\ staticServerUrl' = ServerUrl
        /\ startLog' = [startLog EXCEPT !.starts = @ + 1]
     \/ /\ staticServer' = "running"
        /\ staticServerUrl' = ServerUrl
        /\ startLog' = [startLog EXCEPT !.starts = @ + 2]
  /\ obs' = NoObs
  /\ UNCHANGED <<fsVars, thirdPartyIndexPaths, components, dl, uiVars>>

\* initialize: await createServer(), which awaits server.start() once and
\* catches its rejection.
Initialize ==
  /\ lifecycle = "constructed"
  /\ lifecycle' = "initialized"
  /\ \/ /\ staticServer' = "running"       \* server.start() resolved
        /\ staticServerUrl' = ServerUrl
        /\ startLog' = [startLog EXCEPT !.starts = @ + 1]
     \/ /\ UNCHANGED <<staticServer, staticServerUrl>>  \* it rejected: alert, log
        /\ startLog' = [starts |-> startLog.starts + 1,
                        alerts |-> startLog.alerts + 1,
                        errors |-> startLog.errors + 1]
  /\ obs' = NoObs
  /\ UNCHANGED <<fsVars, thirdPartyIndexPaths, components, dl, uiVars>>

Deinit ==
  /\ lifecycle = "initialized"
  /\ Quiet
  /\ IF staticServer = "unset"
       THEN lifecycle' = "deinitThrew" /\ UNCHANGED staticServer
       ELSE lifecycle' = "deinit" /\ staticServer' = "stopped"
  /\ obs' = NoObs
  /\ dl' = [c \in Calls |-> IdleCall]
  /\ UNCHANGED <<fsVars, thirdPartyIndexPaths, staticServerUrl, components,
                 startLog, uiVars>>

(***************************************************************************)
(* The operations that run between downloads                               *)
(***************************************************************************)
DoesComponentNeedDownload(component) ==
  /\ lifecycle = "initialized"
  /\ Quiet
  /\ obs' = Obs("doesComponentNeedDownload", component,
                doesComponentNeedDownload(component), <<>>)
  /\ dl' = [c \in Calls |-> IdleCall]
  /\ UNCHANGED <<fsVars, thirdPartyIndexPaths, staticServer, staticServerUrl,
                 lifecycle, components, startLog, uiVars>>

\* As UninstallComponent, dropping the identifier's cached index path as well.
UninstallComponentForgettingPath(component) ==
  /\ lifecycle = "initialized"
  /\ Quiet
  /\ installDir' =
       IF installDir[component.identifier].exists
         THEN [installDir EXCEPT ![component.identifier] = NoDir]
         ELSE installDir
  /\ thirdPartyIndexPaths' =
       [thirdPartyIndexPaths EXCEPT ![component.identifier] = Undefined]
  /\ obs' = Obs("uninstallComponent", component, Success, <<>>)
  /\ dl' = [c \in Calls |-> IdleCall]
  /\ UNCHANGED <<tmpZip, tmpMove, staticServer, staticServerUrl, lifecycle,
                 components, startLog, uiVars>>

\* As UninstallComponent, deleting the directory all components are installed
\* under.
UninstallComponentsRoot(component) ==
  /\ lifecycle = "initialized"
  /\ Quiet
  /\ installDir' = [i \in Ids |-> NoDir]
  /\ obs' = Obs("uninstallComponent", component, Success, <<>>)
  /\ dl' = [c \in Calls |-> IdleCall]
  /\ UNCHANGED <<tmpZip, tmpMove, thirdPartyIndexPaths, staticServer,
                 staticServerUrl, lifecycle, components, startLog, uiVars>>

UninstallComponent(component) ==
  /\ lifecycle = "initialized"
  /\ Quiet
  /\ installDir' =
       IF installDir[component.identifier].exists
         THEN [installDir EXCEPT ![component.identifier] = NoDir]
         ELSE installDir
  /\ obs' = Obs("uninstallComponent", component, Success, <<>>)
  /\ dl' = [c \in Calls |-> IdleCall]
  /\ UNCHANGED <<tmpZip, tmpMove, thirdPartyIndexPaths, staticServer,
                 staticServerUrl, lifecycle, components, startLog, uiVars>>

PreloadThirdPartyIndexPathFromDisk(identifier) ==
  /\ lifecycle = "initialized"
  /\ Quiet
  /\ LET packageJson == getDownloadedComponentPackageJsonFile(identifier) IN
     IF packageJson.threw
       THEN /\ obs' = Obs("preloadThirdPartyIndexPathFromDisk",
                          [NoComponent EXCEPT !.identifier = identifier], Threw, <<>>)
            /\ UNCHANGED thirdPartyIndexPaths
       ELSE /\ thirdPartyIndexPaths' =
                 [thirdPartyIndexPaths EXCEPT
                    ![identifier] = Or(packageJson.main, "index.html")]
            /\ obs' = Obs("preloadThirdPartyIndexPathFromDisk",
                          [NoComponent EXCEPT !.identifier = identifier], Success, <<>>)
  /\ dl' = [c \in Calls |-> IdleCall]
  /\ UNCHANGED <<fsVars, staticServer, staticServerUrl, lifecycle, components,
                 startLog, uiVars>>

\* getIndexFile: the preload for a third-party identifier, then getFile of the
\* index path.
GetIndexFile(component) ==
  /\ lifecycle = "initialized"
  /\ Quiet
  /\ LET r == getIndexFile(component.identifier) IN
     /\ thirdPartyIndexPaths' =
          IF isComponentThirdParty(component.identifier) /\ ~r.threw
            THEN [thirdPartyIndexPaths EXCEPT ![component.identifier] = r.path]
            ELSE thirdPartyIndexPaths
     /\ obs' = Obs("getIndexFile", component,
                   IF r.threw THEN Threw ELSE r.file, <<>>)
  /\ dl' = [c \in Calls |-> IdleCall]
  /\ UNCHANGED <<fsVars, staticServer, staticServerUrl, lifecycle, components,
                 startLog, uiVars>>

UrlForComponent(component) ==
  /\ Quiet
  /\ LET r == urlForComponent(component) IN
     obs' = Obs("urlForComponent", component,
                IF r.threw THEN Threw ELSE Success, r.url)
  /\ dl' = [c \in Calls |-> IdleCall]
  /\ UNCHANGED <<fsVars, thirdPartyIndexPaths, staticServer, staticServerUrl,
                 lifecycle, components, startLog, uiVars>>

(***************************************************************************)
(* downloadComponentOffline / performDownloadComponent, one action per     *)
(* awaited operation.  dl[c].pc names the operation the call is waiting on.*)
(***************************************************************************)
StatusCodes == {200, 304, 404}

RECURSIVE LeadingDigit(_)
LeadingDigit(n) == IF n < 10 THEN n ELSE LeadingDigit(n \div 10)

\* As StartsWith2, with redirects taken for success.
StartsWith2Or3(statusCode) == LeadingDigit(statusCode) \in {2, 3}

\* String(result.statusCode).startsWith('2')
StartsWith2(statusCode) == LeadingDigit(statusCode) = 2

\* The awaited operations inside the try block of downloadComponentOffline.
TrySteps == {"existsTmp", "unlinkStale", "downloadFile", "readFile", "sha256",
             "unzip", "readDir", "moveOut", "unlinkDir", "moveIn", "unlinkTmp"}

Goto(c, pc) == [dl EXCEPT ![c].pc = pc]

\* The call returns `result`.
Return(c, result) == [dl EXCEPT ![c].pc = "done", ![c].result = result]

\* The awaited operation rejected: inside the try block the catch returns
\* Unknown; the existence check after it is outside, so the rejection leaves
\* downloadComponentOffline.
Rejected(c) ==
  [dl EXCEPT ![c].pc = "done", ![c].error = dl[c].pc,
             ![c].result = IF dl[c].pc \in TrySteps THEN Unknown ELSE Threw]

CallFrame ==
  <<thirdPartyIndexPaths, staticServer, staticServerUrl, lifecycle, components,
    startLog, uiVars>>

\* downloadComponentOffline up to its first await, in a slot that holds no
\* running call.
BeginCall(c, component) ==
  /\ lifecycle = "initialized"
  /\ dl[c].pc \in {"idle", "done"}
  /\ LET identifier == component.identifier
         downloadUrl == DownloadUrl(component)
         prev == IF dl[c].pc = "done" /\ dl[c].id = identifier
                   THEN dl[c].result ELSE Undefined
     IN  dl' = [dl EXCEPT ![c] =
           IF downloadUrl = Undefined
             THEN [IdleCall EXCEPT !.pc = "done",
                                   !.id = identifier, !.result = Threw,
                                   !.error = "noDownloadUrl",
                                   !.own = component.download_url]
             ELSE [IdleCall EXCEPT !.pc = "existsTmp",
                                   !.id = identifier, !.url = downloadUrl,
                                   !.installBefore = installDir[identifier],
                                   !.prev = prev,
                                   !.own = component.download_url]]
  /\ obs' = NoObs
  /\ UNCHANGED <<fsVars, CallFrame>>

\* A call made while no other call is running.
StartDownload(c, component) ==
  /\ Quiet
  /\ BeginCall(c, component)

\* await RNFS.exists(tmpLocation)
ExistsTmp(c) ==
  /\ dl[c].pc = "existsTmp"
  /\ dl' = Goto(c, IF tmpZip[dl[c].id] # NoFile THEN "unlinkStale" ELSE "downloadFile")
  /\ obs' = NoObs
  /\ UNCHANGED <<fsVars, CallFrame>>

\* await RNFS.unlink(tmpLocation), the stale archive
UnlinkStale(c) ==
  /\ dl[c].pc = "unlinkStale"
  /\ IF tmpZip[dl[c].id] = NoFile
       THEN dl' = Rejected(c) /\ UNCHANGED tmpZip
       ELSE /\ tmpZip' = [tmpZip EXCEPT ![dl[c].id] = NoFile]
            /\ dl' = Goto(c, "downloadFile")
  /\ obs' = NoObs
  /\ UNCHANGED <<installDir, tmpMove, CallFrame>>

\* As requireChecksumVerification, deciding by the checksum table instead of the
\* registry.
requireChecksumVerificationByTable(identifier) ==
  FeatureChecksums(identifier) # Undefined

\* !!this.nativeFeatureForIdentifier(identifier)
requireChecksumVerification(identifier) == ~isComponentThirdParty(identifier)

\* await RNFS.downloadFile(...).promise, then the status test and the choice of
\* whether the checksum is required.
DownloadFile(c) ==
  /\ dl[c].pc = "downloadFile"
  /\ \E statusCode \in StatusCodes :
       IF ~StartsWith2(statusCode)
         THEN /\ dl' = [Return(c, FailedDownload) EXCEPT ![c].status = statusCode]
              /\ UNCHANGED tmpZip
         ELSE \E bytes \in Served(dl[c].url) :
                /\ tmpZip' = [tmpZip EXCEPT ![dl[c].id] = bytes]
                /\ dl' = [dl EXCEPT
                     ![c].status = statusCode,
                     ![c].fetched = bytes,
                     ![c].pc = IF requireChecksumVerification(dl[c].id)
                                 THEN "readFile" ELSE "unzip"]
  /\ obs' = NoObs
  /\ UNCHANGED <<installDir, tmpMove, CallFrame>>

\* passesChecksumValidation: await RNFS.readFile(filePath, 'base64')
ReadFile(c) ==
  /\ dl[c].pc = "readFile"
  /\ dl' = IF tmpZip[dl[c].id] = NoFile
             THEN Rejected(c)
             ELSE [dl EXCEPT ![c].read = tmpZip[dl[c].id], ![c].pc = "sha256"]
  /\ obs' = NoObs
  /\ UNCHANGED <<fsVars, CallFrame>>

\* As passesChecksumValidation, letting an identifier without an expected
\* checksum pass.
passesChecksumValidationMissingOk(zipContents, featureIdentifier) ==
  LET checksum == Sha256(zipContents)
      desiredChecksum == FeatureChecksums(featureIdentifier)
  IN  desiredChecksum = Undefined \/ checksum = desiredChecksum

\* passesChecksumValidation on the text read: TRUE when the digest equals the
\* registry's.
passesChecksumValidation(zipContents, featureIdentifier) ==
  LET checksum == Sha256(zipContents)
      desiredChecksum == FeatureChecksums(featureIdentifier)
  IN  IF desiredChecksum = Undefined \/ desiredChecksum = "" THEN FALSE
      ELSE checksum = desiredChecksum

\* passesChecksumValidation: await crypto.sha256(zipContents), and the comparison
Sha256Compare(c) ==
  /\ dl[c].pc = "sha256"
  /\ LET zipContents == Base64OfFile(dl[c].read)
         passes == passesChecksumValidation(zipContents, dl[c].id)
     IN  dl' = [(IF passes THEN Goto(c, "unzip") ELSE Return(c, ChecksumMismatch))
                  EXCEPT ![c].checksum = Sha256(zipContents),
                         ![c].compared = TRUE]
  /\ obs' = NoObs
  /\ UNCHANGED <<fsVars, CallFrame>>

\* await unzip(tmpLocation, componentPath)
Unzip(c) ==
  /\ dl[c].pc = "unzip"
  /\ IF tmpZip[dl[c].id] = NoFile
       THEN dl' = Rejected(c) /\ UNCHANGED installDir
       ELSE /\ installDir' = [installDir EXCEPT
                                ![dl[c].id] = UnzipInto(@, tmpZip[dl[c].id])]
            /\ dl' = [dl EXCEPT ![c].unzipped = tmpZip[dl[c].id],
                                ![c].pc = "readDir"]
  /\ obs' = NoObs
  /\ UNCHANGED <<tmpZip, tmpMove, CallFrame>>

\* directoryContents.length === 1 && directoryContents[0].isDirectory()
isNestedArchive(directoryContents) ==
  /\ Cardinality(directoryContents) = 1
  /\ \A entry \in directoryContents : entry.isDirectory

\* await RNFS.readDir(componentPath)
ReadDirStep(c) ==
  /\ dl[c].pc = "readDir"
  /\ dl' = IF ~installDir[dl[c].id].exists
             THEN Rejected(c)
             ELSE LET directoryContents == ReadDir(installDir[dl[c].id]) IN
                  IF isNestedArchive(directoryContents)
                    THEN [dl EXCEPT
                            ![c].nested = (CHOOSE e \in directoryContents : TRUE).name,
                            ![c].pc = "moveOut"]
                    ELSE Goto(c, "unlinkTmp")
  /\ obs' = NoObs
  /\ UNCHANGED <<fsVars, CallFrame>>

\* await RNFS.moveFile(nestedDir.path, tmpMovePath): rejects when the source is
\* gone or the destination already exists.
MoveOut(c) ==
  /\ dl[c].pc = "moveOut"
  /\ LET id == dl[c].id
         nestedDir == dl[c].nested
     IN  IF \/ ~installDir[id].exists
            \/ Subtree(installDir[id], nestedDir) = {}
            \/ tmpMove[id].exists
           THEN dl' = Rejected(c) /\ UNCHANGED <<installDir, tmpMove>>
           ELSE /\ tmpMove' = [tmpMove EXCEPT
                                 ![id] = Dir(Subtree(installDir[id], nestedDir))]
                /\ installDir' = [installDir EXCEPT ![id] = Without(@, nestedDir)]
                /\ dl' = Goto(c, "unlinkDir")
  /\ obs' = NoObs
  /\ UNCHANGED <<tmpZip, CallFrame>>

\* await RNFS.unlink(componentPath)
UnlinkDir(c) ==
  /\ dl[c].pc = "unlinkDir"
  /\ IF ~installDir[dl[c].id].exists
       THEN dl' = Rejected(c) /\ UNCHANGED installDir
       ELSE /\ installDir' = [installDir EXCEPT ![dl[c].id] = NoDir]
            /\ dl' = Goto(c, "moveIn")
  /\ obs' = NoObs
  /\ UNCHANGED <<tmpZip, tmpMove, CallFrame>>

\* await RNFS.moveFile(tmpMovePath, componentPath)
MoveIn(c) ==
  /\ dl[c].pc = "moveIn"
  /\ LET id == dl[c].id IN
     IF ~tmpMove[id].exists \/ installDir[id].exists
       THEN dl' = Rejected(c) /\ UNCHANGED <<installDir, tmpMove>>
       ELSE /\ installDir' = [installDir EXCEPT ![id] = tmpMove[id]]
            /\ tmpMove' = [tmpMove EXCEPT ![id] = NoDir]
            /\ dl' = Goto(c, "unlinkTmp")
  /\ obs' = NoObs
  /\ UNCHANGED <<tmpZip, CallFrame>>

\* await RNFS.unlink(tmpLocation); performDownloadComponent then returns
\* undefined and downloadComponentOffline goes on to its existence check.
UnlinkTmp(c) ==
  /\ dl[c].pc = "unlinkTmp"
  /\ IF tmpZip[dl[c].id] = NoFile
       THEN dl' = Rejected(c) /\ UNCHANGED tmpZip
       ELSE /\ tmpZip' = [tmpZip EXCEPT ![dl[c].id] = NoFile]
            /\ dl' = Goto(c, "existsFinal")
  /\ obs' = NoObs
  /\ UNCHANGED <<installDir, tmpMove, CallFrame>>

\* As ExistsFinal, taking the install directory to be there.
ExistsFinalUnchecked(c) ==
  /\ dl[c].pc = "existsFinal"
  /\ dl' = Return(c, Success)
  /\ obs' = NoObs
  /\ UNCHANGED <<fsVars, CallFrame>>

\* await RNFS.exists(componentPath), after the try block
ExistsFinal(c) ==
  /\ dl[c].pc = "existsFinal"
  /\ dl' = Return(c, IF ~installDir[dl[c].id].exists THEN DoesntExist ELSE Success)
  /\ obs' = NoObs
  /\ UNCHANGED <<fsVars, CallFrame>>

\* The operation the call is waiting on rejects (an I/O error, no network, a
\* corrupt archive) without having changed anything.
Raise(c) ==
  /\ dl[c].pc \in TrySteps \cup {"existsFinal"}
  /\ dl' = [Rejected(c) EXCEPT ![c].fault = dl[c].pc]
  /\ obs' = NoObs
  /\ UNCHANGED <<fsVars, CallFrame>>

\* The awaited operation of call c completes.
PipelineStep(c) ==
  \/ ExistsTmp(c)
  \/ UnlinkStale(c)
  \/ DownloadFile(c)
  \/ ReadFile(c)
  \/ Sha256Compare(c)
  \/ Unzip(c)
  \/ ReadDirStep(c)
  \/ MoveOut(c)
  \/ UnlinkDir(c)
  \/ MoveIn(c)
  \/ UnlinkTmp(c)
  \/ ExistsFinal(c)

DownloadStep(c) ==
  \/ PipelineStep(c)
  \/ Raise(c)

(***************************************************************************)
(* Specification: one downloadComponentOffline call at a time, the other   *)
(* operations between calls.                                               *)
(***************************************************************************)
Next ==
  \/ Initialize
  \/ Deinit
  \/ \E component \in components : DoesComponentNeedDownload(component)
  \/ \E component \in components : UninstallComponent(component)
  \/ \E component \in components :
       /\ isComponentThirdParty(component.identifier)
       /\ isComponentDownloadable(component)
       /\ PreloadThirdPartyIndexPathFromDisk(component.identifier)
  \/ \E component \in components : UrlForComponent(component)
  \/ \E component \in components :
       /\ isComponentDownloadable(component)
       /\ GetIndexFile(component)
  \/ \E c \in SeqCalls : \E component \in components : StartDownload(c, component)
  \/ \E c \in SeqCalls : DownloadStep(c)

Spec == Init /\ [][Next]_vars

(***************************************************************************)
(* Specification of overlapping calls: downloadComponentOffline called     *)
(* again, and uninstallComponent called, while a call is suspended at an   *)
(* await.  Nothing in the manager keeps a caller from doing so.            *)
(***************************************************************************)
\* uninstallComponent while a download is suspended.
UninstallWhileDownloading(component) ==
  /\ lifecycle = "initialized"
  /\ ~Quiet
  /\ installDir' =
       IF installDir[component.identifier].exists
         THEN [installDir EXCEPT ![component.identifier] = NoDir]
         ELSE installDir
  /\ obs' = Obs("uninstallComponent", component, Success, <<>>)
  /\ UNCHANGED <<tmpZip, tmpMove, dl, CallFrame>>

ConcurrentInit ==
  /\ ManagerInit
  /\ components = RegistryComponents
  /\ dialog = IdleDialog
  /\ note = FreshNote
  /\ sheet = NoPress
  /\ SheetInit(<<>>)

\* Each slot is used for one call, for the registry editor; its operations
\* complete without an injected failure.
ConcurrentNext ==
  \/ Initialize
  \/ \E c \in Calls : \E component \in components :
       /\ dl[c].pc = "idle"
       /\ component.identifier = IdRegA
       /\ BeginCall(c, component)
  \/ \E c \in Calls : PipelineStep(c)
  \/ \E component \in components :
       /\ component.identifier = IdRegA
       /\ UninstallWhileDownloading(component)

ConcurrentSpec == ConcurrentInit /\ [][ConcurrentNext]_vars

\* One call at a time, with uninstallComponent called while the call is
\* suspended.
InterleavedNext ==
  \/ Initialize
  \/ \E c \in SeqCalls : \E component \in components : StartDownload(c, component)
  \/ \E c \in SeqCalls : DownloadStep(c)
  \/ \E component \in components : UninstallWhileDownloading(component)

InterleavedSpec == Init /\ [][InterleavedNext]_vars

(***************************************************************************)
(* presentPermissionsDialog                                                *)
(***************************************************************************)
\* Everything of the manager; the user interface leaves it alone.
managerVars ==
  <<fsVars, thirdPartyIndexPaths, staticServer, staticServerUrl, lifecycle,
    components, dl, obs, startLog>>

\* How alertService.confirm can settle: resolved with true (Continue), resolved
\* with false (Cancel, or the prompt dismissed), or rejected.
ConfirmOutcomes == {"confirm", "cancel", "dismiss", "reject"}

\* presentPermissionsDialog up to its await of alertService.confirm.
PresentPermissionsDialog ==
  /\ dialog.pc # "confirm"
  /\ dialog' = [pc |-> "confirm", calls |-> <<>>]
  /\ UNCHANGED <<note, listedSections, sheet, listedVars, managerVars>>

\* The confirm promise settles: dialog.callback(approved) runs when it resolved;
\* a rejection leaves presentPermissionsDialog at the await.
ConfirmSettles(outcome) ==
  /\ dialog.pc = "confirm"
  /\ dialog' =
       IF outcome = "reject"
         THEN [dialog EXCEPT !.pc = "threw"]
         ELSE [pc |-> "returned",
               calls |-> Append(dialog.calls, outcome = "confirm")]
  /\ UNCHANGED <<note, listedSections, sheet, listedVars, managerVars>>

(***************************************************************************)
(* NoteBottomSheet (src/unnamed/part_000): the sections built from the     *)
(* note's flags, and the action callbacks.                                 *)
(***************************************************************************)
Notes ==
  { Note(pinned, archived, locked, protected, trashed) :
      pinned \in BOOLEAN, archived \in BOOLEAN, locked \in BOOLEAN,
      protected \in BOOLEAN, trashed \in BOOLEAN }

SheetAction(key, text) == [key |-> key, text |-> text]

historyAction == SheetAction("history", "Note history")

protectAction(n) ==
  SheetAction("protect", IF n.protected THEN "Unprotect" ELSE "Protect")

pinAction(n) == SheetAction("pin", IF n.pinned THEN "Unpin" ELSE "Pin to top")

archiveAction(n) ==
  SheetAction("archive", IF n.archived THEN "Unarchive" ELSE "Archive")

lockAction(n) == SheetAction("lock", IF n.locked THEN "Unlock" ELSE "Lock")

shareAction == SheetAction("share", "Share")

restoreAction == SheetAction("restore-note", "Restore")

deleteAction == SheetAction("delete-forever", "Delete permanently")

moveToTrashAction == SheetAction("trash", "Move to Trash")

historySection == [key |-> "history-section", actions |-> <<historyAction>>]

\* As commonSection, with the trash actions kept for a protected note.
commonSectionTrashWhenProtected(n) ==
  LET trashActions ==
        IF n.trashed THEN <<restoreAction, deleteAction>>
                     ELSE <<moveToTrashAction>>
      actions ==
        IF n.protected
          THEN <<protectAction(n)>> \o trashActions
          ELSE <<pinAction(n), archiveAction(n), lockAction(n), protectAction(n),
                 shareAction>> \o trashActions
  IN  [key |-> "common-section", actions |-> actions]

commonSection(n) ==
  LET trashActions ==
        IF n.trashed THEN <<restoreAction, deleteAction>>
                     ELSE <<moveToTrashAction>>
      actions ==
        IF n.protected
          THEN <<protectAction(n)>>
          ELSE <<pinAction(n), archiveAction(n), lockAction(n), protectAction(n),
                 shareAction>> \o trashActions
  IN  [key |-> "common-section", actions |-> actions]

\* The sections handed to BottomSheet.
sections(n, listed) ==
  IF n.protected
    THEN <<commonSection(n)>>
    ELSE <<historySection, commonSection(n)>> \o listed

\* As SortByUuid, leaving the extensions in the order they came in.
SortKeepingOrder(extensions) == extensions

\* extensions.sort((a, b) => a.uuid > b.uuid ? 1 : -1), on extensions of
\* distinct uuids.
SortByUuid(extensions) ==
  SelectSeq(Uuids, LAMBDA u : \E i \in DOMAIN extensions : extensions[i] = u)

\* `listed-${extension.uuid}-section`
ListedSectionKey(uuid) ==
  CASE uuid = "0a1f" -> "listed-0a1f-section"
    [] uuid = "7c2e" -> "listed-7c2e-section"
    [] uuid = "f3b0" -> "listed-f3b0-section"
    [] OTHER -> "listed-undefined-section"

\* `listed${action.id}-action`, of the one action each extension has.
ListedActionKey(uuid) ==
  CASE uuid = "0a1f" -> "listed0a1f:publish-action"
    [] uuid = "7c2e" -> "listed7c2e:publish-action"
    [] uuid = "f3b0" -> "listedf3b0:publish-action"
    [] OTHER -> "listedundefined-action"

\* `${extension.uuid}-section`, the key of the item shown when the extension
\* did not load.
NoActionsKey(uuid) ==
  CASE uuid = "0a1f" -> "0a1f-section"
    [] uuid = "7c2e" -> "7c2e-section"
    [] uuid = "f3b0" -> "f3b0-section"
    [] OTHER -> "undefined-section"

\* The item of an extension's action; its callback is executeAction.
getListedActionItem(uuid) == SheetAction(ListedActionKey(uuid), "Publish")

\* getListedExpandableSection(extension, updatedExtension): updated is whether
\* updatedExtension is defined.
getListedExpandableSection(uuid, updated) ==
  [key |-> ListedSectionKey(uuid),
   actions |-> IF updated
                 THEN <<getListedActionItem(uuid)>>
                 ELSE <<SheetAction(NoActionsKey(uuid), "No actions available")>>]

\* getReloadedListedSection: with a uuid to reload the extension is loaded
\* again, which gives undefined when it fails (the uuids in `loaded` succeed);
\* without one the extension is used as it is.
getReloadedListedSection(uuid, extensionToReloadUuid, loaded) ==
  getListedExpandableSection(
    uuid, extensionToReloadUuid = Undefined \/ uuid \in loaded)

\* The effect on [shouldReloadListedSections, reloadListedExtensionUuid,
\* reloadListedSections]: with the flag set reloadListedSections is called, which
\* sorts listedExtensions in place and awaits the load of each extension; the
\* flag is cleared.  With the flag clear the effect changes nothing.
UseEffect ==
  /\ ~note.deleted
  /\ shouldReloadListedSections
  /\ listedExtensions' = SortByUuid(listedExtensions)
  /\ reloads' = reloads \cup {reloadListedExtensionUuid}
  /\ shouldReloadListedSections' = FALSE
  /\ UNCHANGED <<reloadListedExtensionUuid, listedSections, extensionActions,
                 exec, note, dialog, sheet, managerVars>>

\* The loads of a reloadListedSections call have settled: setListedSections.
ReloadListedSections(extensionToReloadUuid, loaded) ==
  /\ ~note.deleted
  /\ extensionToReloadUuid \in reloads
  /\ reloads' = reloads \ {extensionToReloadUuid}
  /\ listedSections' =
       [i \in DOMAIN listedExtensions |->
          getReloadedListedSection(listedExtensions[i], extensionToReloadUuid,
                                   loaded)]
  /\ UNCHANGED <<listedExtensions, shouldReloadListedSections,
                 reloadListedExtensionUuid, extensionActions, exec, note,
                 dialog, sheet, managerVars>>

\* changeNote(mutator => { mutator[field] = value })
changeNote(n, field, value) == [n EXCEPT ![field] = value]

LockedAlert ==
  "This note is locked. If you'd like to archive it, unlock it, and try again."

\* As archiveCallback, archiving a locked note as well.
archiveCallbackIgnoringLock(n) ==
  [note |-> changeNote(n, "archived", ~n.archived), alerts |-> <<>>]

\* archiveAction.callback: the note afterwards and the alerts shown.
archiveCallback(n) ==
  IF n.locked
    THEN [note |-> n, alerts |-> <<LockedAlert>>]
    ELSE [note |-> changeNote(n, "archived", ~n.archived), alerts |-> <<>>]

\* The callback of the action with this key.  `granted` is whether
\* protectOrUnprotectNote and deleteNote, which ask for privileges, went ahead.
Callback(key, n, granted) ==
  CASE key = "pin" -> [note |-> changeNote(n, "pinned", ~n.pinned), alerts |-> <<>>]
    [] key = "archive" -> archiveCallback(n)
    [] key = "lock" -> [note |-> changeNote(n, "locked", ~n.locked), alerts |-> <<>>]
    [] key = "protect" ->
         [note |-> IF granted THEN changeNote(n, "protected", ~n.protected) ELSE n,
          alerts |-> <<>>]
    [] key = "restore-note" ->
         [note |-> changeNote(n, "trashed", FALSE), alerts |-> <<>>]
    [] key = "trash" ->
         [note |-> IF granted THEN changeNote(n, "trashed", TRUE) ELSE n,
          alerts |-> <<>>]
    [] key = "delete-forever" ->
         [note |-> IF granted THEN changeNote(n, "deleted", TRUE) ELSE n,
          alerts |-> <<>>]
    [] OTHER -> [note |-> n, alerts |-> <<>>]

NoteActionKeys ==
  {"pin", "archive", "lock", "protect", "history", "share", "trash",
   "restore-note", "delete-forever"}

\* The keys of the actions the sheet shows.
SheetKeys(secs) ==
  UNION { {secs[i].actions[j].key : j \in DOMAIN secs[i].actions} :
            i \in DOMAIN secs }

\* The user presses an action the sheet shows.
Press(key) ==
  /\ ~note.deleted
  /\ key \in SheetKeys(sections(note, listedSections))
  /\ \E granted \in BOOLEAN :
       LET r == Callback(key, note, granted) IN
       /\ note' = r.note
       /\ sheet' = [key |-> key, before |-> note, alerts |-> r.alerts]
  /\ UNCHANGED <<dialog, listedSections, listedVars, managerVars>>

(***************************************************************************)
(* Specification of the user interface: the sheet mounted for a note with  *)
(* any flags, and permission dialogs, over a manager that stays as         *)
(* constructed.                                                            *)
(***************************************************************************)
\* The extensions of a note, in the orders useListedExtensions can give them.
ExtensionLists ==
  { <<>>, <<"7c2e">>, <<"0a1f", "7c2e">>, <<"7c2e", "0a1f">>,
    <<"f3b0", "0a1f">> }

UiInit ==
  /\ ManagerInit
  /\ components = ThirdPartyComponents
  /\ dialog = IdleDialog
  /\ note \in Notes
  /\ sheet = NoPress
  /\ \E extensions \in {<<>>, <<"7c2e", "0a1f">>} : SheetInit(extensions)

UiNext ==
  \/ PresentPermissionsDialog
  \/ \E outcome \in ConfirmOutcomes : ConfirmSettles(outcome)
  \/ UseEffect
  \/ \E extensionToReloadUuid \in {Undefined} \cup UuidSet :
       \E loaded \in SUBSET {listedExtensions[i] : i \in DOMAIN listedExtensions} :
         ReloadListedSections(extensionToReloadUuid, loaded)
  \/ \E key \in NoteActionKeys : Press(key)

UiSpec == UiInit /\ [][UiNext]_vars

(***************************************************************************)
(* executeAction: the callback of an extension's action.                   *)
(***************************************************************************)
\* updateAction(action, extension, params): the action gets params.running and
\* params.error, each undefined when params does not give it.
updateAction(uuid, running, error) ==
  [extensionActions EXCEPT ![uuid] = Marks(running, error)]

listedFrame == <<listedExtensions, listedSections, reloads, note, dialog, sheet,
                 managerVars>>

\* The user presses the action of an extension whose section the sheet shows:
\* executeAction up to its first await.
ExecuteAction(s, uuid) ==
  /\ ~note.deleted
  /\ exec[s].pc \in {"idle", "done"}
  /\ ListedActionKey(uuid) \in SheetKeys(sections(note, listedSections))
  /\ exec' = [exec EXCEPT ![s] = [pc |-> "updateRunning", uuid |-> uuid,
                                  response |-> "none"]]
  /\ UNCHANGED <<extensionActions, shouldReloadListedSections,
                 reloadListedExtensionUuid, listedFrame>>

\* await updateAction(action, extension, { running: true }), then runAction is
\* called.
UpdateRunning(s) ==
  /\ exec[s].pc = "updateRunning"
  /\ extensionActions' = updateAction(exec[s].uuid, "true", Undefined)
  /\ exec' = [exec EXCEPT ![s].pc = "runAction"]
  /\ UNCHANGED <<shouldReloadListedSections, reloadListedExtensionUuid,
                 listedFrame>>

\* runAction resolves, with a response that carries an error or not.
RunActionReturns(s, error) ==
  /\ exec[s].pc = "runAction"
  /\ exec' = [exec EXCEPT ![s].pc = "afterRun",
                          ![s].response = IF error THEN "error" ELSE "ok"]
  /\ UNCHANGED <<extensionActions, shouldReloadListedSections,
                 reloadListedExtensionUuid, listedFrame>>

\* if (response?.error) { await updateAction(..., { error: true }); return }
\* await updateAction(..., { running: false });
\* setReloadListedExtensionUuid(extension.uuid);
\* setShouldReloadListedSections(true)
AfterRun(s) ==
  /\ exec[s].pc = "afterRun"
  /\ exec' = [exec EXCEPT ![s].pc = "done"]
  /\ IF exec[s].response = "error"
       THEN /\ extensionActions' = updateAction(exec[s].uuid, Undefined, "true")
            /\ UNCHANGED <<shouldReloadListedSections, reloadListedExtensionUuid>>
       ELSE /\ extensionActions' = updateAction(exec[s].uuid, "false", Undefined)
            /\ reloadListedExtensionUuid' = exec[s].uuid
            /\ shouldReloadListedSections' = TRUE
  /\ UNCHANGED listedFrame

(***************************************************************************)
(* Specification of the extension sections: the sheet mounted for a note   *)
(* that is neither protected nor deleted, over a manager that stays as     *)
(* constructed.  React runs an effect whose dependencies changed, so a set *)
(* reload-pending flag is acted on.                                        *)
(***************************************************************************)
ListedInit ==
  /\ ManagerInit
  /\ components = ThirdPartyComponents
  /\ dialog = IdleDialog
  /\ note = FreshNote
  /\ sheet = NoPress
  /\ \E extensions \in ExtensionLists : SheetInit(extensions)

ListedNext ==
  \/ UseEffect
  \/ \E extensionToReloadUuid \in {Undefined} \cup UuidSet :
       \E loaded \in SUBSET {listedExtensions[i] : i \in DOMAIN listedExtensions} :
         ReloadListedSections(extensionToReloadUuid, loaded)
  \/ \E s \in ExecSlots : \E uuid \in UuidSet : ExecuteAction(s, uuid)
  \/ \E s \in ExecSlots : UpdateRunning(s)
  \/ \E s \in ExecSlots : \E error \in BOOLEAN : RunActionReturns(s, error)
  \/ \E s \in ExecSlots : AfterRun(s)

ListedSpec == ListedInit /\ [][ListedNext]_vars /\ WF_vars(UseEffect)

(***************************************************************************)
(* Properties                                                              *)
(***************************************************************************)
RegistryIds == {f.identifier : f \in Features}

\* The top-level entries of an archive, and what a first install of it holds.
ArchiveTop(bytes) == ReadDir(Dir(ArchiveEntries(bytes)))

NormalizedInstall(bytes) ==
  IF isNestedArchive(ArchiveTop(bytes))
    THEN Dir(Subtree(Dir(ArchiveEntries(bytes)),
                     (CHOOSE e \in ArchiveTop(bytes) : TRUE).name))
    ELSE Dir(ArchiveEntries(bytes))

Is2xx(statusCode) == statusCode >= 200 /\ statusCode <= 299

\* The component's download url resolves: the registry's or its own.
Resolvable(component) ==
  \/ \E f \in Features :
       f.identifier = component.identifier /\ f.download_url # Undefined
  \/ component.download_url # Undefined

\* C1: for an identifier of the registry, a call whose downloaded archive's
\* digest is not the registry's expected checksum (or that has none) never
\* extracts, leaves the install directory exactly as it was when the call
\* started, and, when no operation failed, returns ChecksumMismatch.
C1_ChecksumMismatchRejected ==
  \A c \in Calls :
    ( /\ dl[c].pc # "idle"
      /\ dl[c].fetched # NoFile
      /\ dl[c].id \in RegistryIds
      /\ Sha256(Base64OfFile(dl[c].fetched)) # FeatureChecksums(dl[c].id) )
    => /\ dl[c].unzipped = NoFile
       /\ installDir[dl[c].id] = dl[c].installBefore
       /\ (dl[c].pc = "done" /\ dl[c].error = "none"
             => dl[c].result = ChecksumMismatch)

\* A tampered archive for the registry editor was rejected over an earlier install.
C1_Witness ==
  \E c \in Calls :
    /\ dl[c].pc = "done"
    /\ dl[c].id = IdRegA
    /\ dl[c].fetched = ZipTampered
    /\ dl[c].result = ChecksumMismatch
    /\ dl[c].installBefore.exists
    /\ installDir[IdRegA] = dl[c].installBefore

\* C2: for an identifier that is not in the registry, a call never reads the
\* archive for a digest, never compares a checksum and never returns
\* ChecksumMismatch, whatever was downloaded and although the checksum table has
\* an entry for the identifier.
C2_ThirdPartyNeverVerified ==
  \A c \in Calls :
    (dl[c].pc # "idle" /\ dl[c].id \notin RegistryIds)
    => /\ ~dl[c].compared
       /\ dl[c].read = NoFile
       /\ dl[c].checksum = Undefined
       /\ dl[c].result # ChecksumMismatch

\* A third-party download succeeded with an archive whose digest is not the one
\* the checksum table holds for its identifier.
C2_Witness ==
  \E c \in Calls :
    /\ dl[c].pc = "done"
    /\ dl[c].id = IdTp
    /\ dl[c].result = Success
    /\ dl[c].unzipped # NoFile
    /\ FeatureChecksums(IdTp) # Undefined
    /\ Sha256(Base64OfFile(dl[c].unzipped)) # FeatureChecksums(IdTp)

\* C3: a call for a component with a resolvable download url never throws: it
\* ends with undefined, FailedDownload, ChecksumMismatch, DoesntExist or Unknown,
\* whichever awaited operation rejected.
C3_NeverThrows ==
  \A c \in Calls :
    (dl[c].pc = "done" /\ dl[c].url # Undefined)
    => dl[c].result \in {Success, FailedDownload, ChecksumMismatch, DoesntExist,
                         Unknown}

\* C4: when a call returns success, over an install directory that was absent
\* or held an earlier normalized install, the directory's children are the
\* wrapped directory's children for an archive with one wrapping directory, and
\* the archive's own top-level entries (nothing moved) otherwise.
C4_LayoutNormalized ==
  \A c \in Calls :
    ( /\ dl[c].pc = "done"
      /\ dl[c].result = Success
      /\ dl[c].unzipped # NoFile
      /\ \/ ~dl[c].installBefore.exists
         \/ \E b \in ArchiveBytes : dl[c].installBefore = NormalizedInstall(b) )
    => IF isNestedArchive(ArchiveTop(dl[c].unzipped))
         THEN ReadDir(installDir[dl[c].id])
                = ReadDir(NormalizedInstall(dl[c].unzipped))
         ELSE /\ ReadDir(installDir[dl[c].id]) = ArchiveTop(dl[c].unzipped)
              /\ dl[c].nested = Undefined

\* An archive that passes the verification its identifier requires.
GoodArchive(identifier, bytes) ==
  \/ identifier \notin RegistryIds
  \/ Sha256(Base64OfFile(bytes)) = FeatureChecksums(identifier)

\* C5: a call that follows a failed call for the same identifier, fetches a good
\* archive and meets no failing operation returns success and leaves the
\* archive's payload as the install directory's content.
C5_RetryAfterFailureSucceeds ==
  \A c \in Calls :
    ( /\ dl[c].pc = "done"
      /\ dl[c].prev \notin {Undefined, Success}
      /\ dl[c].fault = "none"
      /\ dl[c].fetched # NoFile
      /\ GoodArchive(dl[c].id, dl[c].fetched) )
    => /\ dl[c].result = Success
       /\ NormalizedInstall(dl[c].fetched).files \subseteq installDir[dl[c].id].files
       /\ ~isNestedArchive(ReadDir(installDir[dl[c].id]))

\* C6 as stated: after a fetch that ended with a status outside 2xx the call
\* returns FailedDownload, has verified and extracted nothing, and no install
\* directory exists for the identifier.
C6_FailedDownloadNoInstallDir ==
  \A c \in Calls :
    (dl[c].pc # "idle" /\ dl[c].status # 0 /\ ~Is2xx(dl[c].status))
    => /\ dl[c].pc = "done"
       /\ dl[c].result = FailedDownload
       /\ ~dl[c].compared /\ dl[c].read = NoFile /\ dl[c].unzipped = NoFile
       /\ ~installDir[dl[c].id].exists

\* C6 as amended: after a fetch that ended with a status outside 2xx the call
\* returns FailedDownload, has verified and extracted nothing, and the install
\* directory is exactly as it was when the call started (none if there was none).
C6_FailedDownloadInstallUntouched ==
  \A c \in Calls :
    (dl[c].pc # "idle" /\ dl[c].status # 0 /\ ~Is2xx(dl[c].status))
    => /\ dl[c].pc = "done"
       /\ dl[c].result = FailedDownload
       /\ ~dl[c].compared /\ dl[c].read = NoFile /\ dl[c].unzipped = NoFile
       /\ installDir[dl[c].id] = dl[c].installBefore

\* A 404 over an earlier install.
C6_Witness ==
  \E c \in Calls :
    /\ dl[c].pc = "done"
    /\ dl[c].status = 404
    /\ dl[c].result = FailedDownload
    /\ dl[c].installBefore.exists
    /\ installDir[dl[c].id].exists

\* The version doesComponentNeedDownload compares against: the registry's for a
\* registry identifier, else the component's own.
C7_Latest(component) ==
  IF component.identifier \in RegistryIds
    THEN (CHOOSE f \in Features : f.identifier = component.identifier).version
    ELSE component.version

C7_Result ==
  (obs.op = "doesComponentNeedDownload" /\ Resolvable(obs.comp))
  => LET text == FileIn(installDir[obs.comp.identifier], <<"package.json">>) IN
     IF text = Undefined THEN obs.res = "true"
     ELSE IF JSONParse(text).threw THEN TRUE
     ELSE obs.res =
            (IF SemVerLess(SemVerParts(JSONParse(text).version),
                           SemVerParts(C7_Latest(obs.comp)))
               THEN "true" ELSE "false")

\* C7: for a component with a resolvable download url, doesComponentNeedDownload
\* returns true when there is no installed manifest, and for an installed
\* manifest with a version returns true exactly when the latest version (the
\* registry's, else the component's own) is greater under major.minor.patch
\* ordering; and it changes nothing on the filesystem.
C7_NeedDownload ==
  /\ []C7_Result
  /\ [][obs'.op = "doesComponentNeedDownload" => UNCHANGED fsVars]_vars

\* Installed 1.2.0, latest 1.3.0: true.
C7_Witness ==
  /\ obs.op = "doesComponentNeedDownload"
  /\ obs.comp.identifier = IdTp
  /\ obs.comp.version = "1.3.0"
  /\ FileIn(installDir[IdTp], <<"package.json">>) = JsonV12
  /\ obs.res = "true"

\* C8: doesComponentNeedDownload returns true for an install directory that is
\* there without a readable manifest: no manifest file, one that does not parse,
\* or one without a version.
C8_UnreadableManifestIsAbsent ==
  LET text == FileIn(installDir[obs.comp.identifier], <<"package.json">>) IN
  ( /\ obs.op = "doesComponentNeedDownload"
    /\ Resolvable(obs.comp)
    /\ installDir[obs.comp.identifier].exists
    /\ \/ text = Undefined
       \/ JSONParse(text).threw
       \/ JSONParse(text).version = Undefined )
  => obs.res = "true"

\* C9: for a downloadable component that is no system theme, urlForComponent
\* throws exactly when the identifier is third-party and has no cached index
\* path; what it returns is the server url, then /<identifier>/<index path>, the
\* index path the registry's or the cached one; and once
\* preloadThirdPartyIndexPathFromDisk has run for an identifier, on whatever is
\* on disk, urlForComponent does not throw for it.
C9_UrlForDownloadable ==
  /\ ( /\ obs.op = "urlForComponent"
       /\ Resolvable(obs.comp)
       /\ ~(obs.comp.isTheme /\ obs.comp.isSystemTheme) )
     => LET id == obs.comp.identifier
            indexPath ==
              IF id \in RegistryIds
                THEN (CHOOSE f \in Features : f.identifier = id).index_path
                ELSE thirdPartyIndexPaths[id]
        IN  /\ obs.res = Threw
                 <=> (id \notin RegistryIds /\ thirdPartyIndexPaths[id] = Undefined)
            /\ obs.res = Success
                 => obs.url = <<TemplateString(staticServerUrl), "/", id, "/",
                                indexPath>>
  /\ obs.op = "preloadThirdPartyIndexPathFromDisk"
     => \A component \in components :
          ( /\ component.identifier = obs.comp.identifier
            /\ Resolvable(component)
            /\ ~(component.isTheme /\ component.isSystemTheme) )
          => ~urlForComponent(component).threw

\* C10: for a system theme urlForComponent returns data:text/css;base64, and a
\* payload that decodes to the serialized theme variables, in every state of the
\* server, the index path cache and the filesystem, with or without a download
\* url.
C10_SystemThemeDataUrl ==
  (obs.op = "urlForComponent" /\ obs.comp.isTheme /\ obs.comp.isSystemTheme)
  => /\ obs.res = Success
     /\ Len(obs.url) = 2
     /\ obs.url[1] = "data:text/css;base64,"
     /\ Base64Decode(obs.url[2]) = objectToCss(obs.comp.variables)
     /\ objectToCss(obs.comp.variables) # ""

\* A system theme with a download url, resolved after the server failed to
\* start, with nothing preloaded and its identifier installed.
C10_Witness ==
  /\ obs.op = "urlForComponent"
  /\ obs.comp.isTheme /\ obs.comp.isSystemTheme
  /\ Resolvable(obs.comp)
  /\ lifecycle = "initialized" /\ staticServerUrl = Undefined
  /\ thirdPartyIndexPaths[obs.comp.identifier] = Undefined
  /\ installDir[obs.comp.identifier].exists
  /\ obs.res = Success

\* C11: once a presentPermissionsDialog call has ended, whichever way the
\* confirmation prompt settled (confirmed, cancelled, dismissed, rejected), the
\* dialog's callback has been invoked exactly once, with true when the user
\* confirmed and false otherwise.
C11_CallbackExactlyOnce ==
  dialog.pc \in {"returned", "threw"}
  => /\ Len(dialog.calls) = 1
     /\ dialog.calls[1] \in BOOLEAN

\* C12: deinit does not raise an error, whether server.start() had resolved (the
\* server is then stopped) or had rejected during initialize (no server kept).
C12_DeinitNeverThrows ==
  /\ lifecycle # "deinitThrew"
  /\ lifecycle = "deinit" /\ staticServerUrl # Undefined => staticServer = "stopped"

\* C13: initialize ends without a throw having started the server exactly once;
\* when the start failed there has been exactly one alert and one logged error
\* and no base url is set, when it succeeded there has been none and the base
\* url is the one start() resolved to; and after a failed start version checks,
\* downloads and url resolution of system themes can still be called.
C13_StartFailureNonFatal ==
  /\ lifecycle = "constructed" => startLog = NoStartLog /\ staticServerUrl = Undefined
  /\ lifecycle # "constructed"
     => /\ startLog.starts = 1
        /\ IF staticServer = "unset"
             THEN /\ startLog.alerts = 1 /\ startLog.errors = 1
                  /\ staticServerUrl = Undefined
             ELSE /\ startLog.alerts = 0 /\ startLog.errors = 0
                  /\ staticServerUrl = ServerUrl
  /\ (lifecycle = "initialized" /\ staticServer = "unset" /\ Quiet)
     => /\ \A component \in components :
             /\ ENABLED DoesComponentNeedDownload(component)
             /\ ENABLED UrlForComponent(component)
             /\ \A c \in SeqCalls : ENABLED StartDownload(c, component)
        /\ \A component \in components :
             component.isTheme /\ component.isSystemTheme
             => ~urlForComponent(component).threw

\* After the server failed to start, with its one alert and one logged error, a
\* download has installed a component.
C13_Witness ==
  /\ lifecycle = "initialized"
  /\ staticServer = "unset" /\ staticServerUrl = Undefined
  /\ startLog = [starts |-> 1, alerts |-> 1, errors |-> 1]
  /\ \E c \in Calls :
       /\ dl[c].pc = "done" /\ dl[c].result = Success
       /\ installDir[dl[c].id].exists

\* The texts of a section's actions, in order.
ActionTexts(section) ==
  [i \in DOMAIN section.actions |-> section.actions[i].text]

\* C14: for a trashed note (one that is not protected, whose sheet C15 gives) the
\* common-actions section holds exactly Restore and Delete permanently, in that
\* order.
C14_TrashedCommonActions ==
  (note.trashed /\ ~note.protected)
  => ActionTexts(commonSection(note)) = <<"Restore", "Delete permanently">>

\* C15: for a protected note, whatever its other flags and whatever extension
\* sections are loaded, the sheet is the common-actions section alone and that
\* section is the Unprotect action alone.
C15_ProtectedOnlyUnprotect ==
  note.protected
  => LET secs == sections(note, listedSections) IN
     /\ Len(secs) = 1
     /\ secs[1].key = "common-section"
     /\ Len(secs[1].actions) = 1
     /\ secs[1].actions[1].key = "protect"
     /\ secs[1].actions[1].text = "Unprotect"

\* A protected note that is also trashed, locked and pinned, with the sections of
\* two extensions loaded.
C15_Witness ==
  /\ note.protected /\ note.trashed /\ note.locked /\ note.pinned
  /\ Len(listedSections) = 2

\* C16: the archive action on a locked note shows an alert and leaves every flag
\* of the note as it was; on an unlocked note it toggles archived and leaves
\* every other flag as it was.
C16_ArchiveRespectsLock ==
  sheet.key = "archive"
  => IF sheet.before.locked
       THEN Len(sheet.alerts) = 1 /\ note = sheet.before
       ELSE /\ note.archived = ~sheet.before.archived
            /\ \A flag \in {"pinned", "locked", "protected", "trashed", "deleted"} :
                 note[flag] = sheet.before[flag]

\* The archive action was pressed on a locked note that is not archived.
C16_Witness ==
  /\ sheet.key = "archive"
  /\ sheet.before.locked /\ ~sheet.before.archived
  /\ ~note.archived
  /\ sheet.alerts = <<LockedAlert>>

\* C17: whatever the interleaving of two calls for the same registry identifier,
\* the archive a call extracts is the content that call read and compared, and
\* its digest is the registry's expected checksum.
C17_ExtractedIsVerified ==
  \A c \in Calls :
    (dl[c].id \in RegistryIds /\ dl[c].unzipped # NoFile)
    => /\ dl[c].compared
       /\ dl[c].read = dl[c].unzipped
       /\ Sha256(Base64OfFile(dl[c].unzipped)) = FeatureChecksums(dl[c].id)

\* C18: at the step at which a call returns success the install directory of its
\* identifier exists and the temporary archive is gone; and a call whose
\* pipeline ended without an error and whose install directory is not there
\* returns DoesntExist.
C18_SuccessMeansInstalled ==
  [][\A c \in Calls :
       (dl[c].pc \notin {"idle", "done"} /\ dl'[c].pc = "done")
       => /\ dl'[c].result = Success
               => /\ installDir'[dl[c].id].exists
                  /\ tmpZip'[dl[c].id] = NoFile
          /\ ( /\ dl[c].pc = "existsFinal"
               /\ dl'[c].error = "none"
               /\ ~installDir'[dl[c].id].exists )
               => dl'[c].result = DoesntExist]_vars

\* A call has returned DoesntExist: its pipeline ended without an error and the
\* directory it had unpacked into was uninstalled before the existence check.
C18_Witness ==
  \E c \in Calls :
    /\ dl[c].pc = "done"
    /\ dl[c].result = DoesntExist
    /\ dl[c].unzipped # NoFile
    /\ dl[c].error = "none"
    /\ ~installDir[dl[c].id].exists
    /\ tmpZip[dl[c].id] = NoFile

\* The version the manifest of an archive declares.
ArchiveVersion(bytes) ==
  PackageJsonIn(NormalizedInstall(bytes)).version

\* C19: when a call returns success for an archive whose manifest declares the
\* latest version, over an install directory that was absent or held an install
\* of an older version, doesComponentNeedDownload for the same component then
\* returns false.
C19_DownloadConverges ==
  \A c \in Calls : \A component \in components :
    ( /\ dl[c].pc = "done"
      /\ dl[c].result = Success
      /\ dl[c].unzipped # NoFile
      /\ component.identifier = dl[c].id
      /\ Resolvable(component)
      /\ ArchiveVersion(dl[c].unzipped) = C7_Latest(component)
      /\ \/ ~dl[c].installBefore.exists
         \/ \E b \in ArchiveBytes :
              /\ dl[c].installBefore = NormalizedInstall(b)
              /\ SemVerLess(SemVerParts(ArchiveVersion(b)),
                            SemVerParts(C7_Latest(component))) )
    => doesComponentNeedDownload(component) = "false"

\* Every path an archive can put below an install directory.
C20_Paths ==
  UNION {Paths(ArchiveEntries(b)) \cup Paths(NormalizedInstall(b).files) :
           b \in ArchiveBytes}

\* C20 as stated, for the state uninstallComponent returns in: it has not
\* thrown, no install directory exists for the identifier, getFile and
\* getIndexFile return undefined for it and doesComponentNeedDownload returns
\* true for the component.
C20_UninstalledNeedsDownload ==
  obs.op = "uninstallComponent"
  => /\ obs.res = Success
     /\ ~installDir[obs.comp.identifier].exists
     /\ \A path \in C20_Paths : getFile(obs.comp.identifier, path) = Undefined
     /\ ~getIndexFile(obs.comp.identifier).threw
     /\ getIndexFile(obs.comp.identifier).file = Undefined
     /\ doesComponentNeedDownload(obs.comp) = "true"

C20_AfterUninstall ==
  obs.op = "uninstallComponent"
  => /\ obs.res = Success
     /\ ~installDir[obs.comp.identifier].exists
     /\ \A path \in C20_Paths : getFile(obs.comp.identifier, path) = Undefined
     /\ ~getIndexFile(obs.comp.identifier).threw
     /\ getIndexFile(obs.comp.identifier).file = Undefined
     /\ doesComponentNeedDownload(obs.comp)
          = (IF Resolvable(obs.comp) THEN "true" ELSE Threw)

\* C20 as amended: after uninstallComponent has returned no install directory
\* exists for the identifier, getFile and getIndexFile return undefined for it,
\* and doesComponentNeedDownload returns true for the component when a download
\* url resolves for it (it throws when none does); uninstalling an identifier
\* that is not installed changes nothing on the filesystem and does not throw;
\* and every other identifier's install directory is left as it was.
C20_Uninstall ==
  /\ []C20_AfterUninstall
  /\ [][obs'.op = "uninstallComponent"
        => /\ \A i \in Ids \ {obs'.comp.identifier} : installDir'[i] = installDir[i]
           /\ UNCHANGED <<tmpZip, tmpMove>>
           /\ ~installDir[obs'.comp.identifier].exists => UNCHANGED installDir]_vars

\* The third-party editor was uninstalled while installed, with nothing else
\* installed changed, and it now needs a download.
C20_Witness ==
  /\ obs.op = "uninstallComponent"
  /\ obs.comp.identifier = IdTp
  /\ Resolvable(obs.comp)
  /\ ~installDir[IdTp].exists
  /\ doesComponentNeedDownload(obs.comp) = "true"
  /\ thirdPartyIndexPaths[IdTp] # Undefined

\* The download url the registry holds for an identifier, Undefined when none.
C21_RegistryUrl(identifier) ==
  IF \E f \in Features : f.identifier = identifier
    THEN (CHOOSE f \in Features : f.identifier = identifier).download_url
    ELSE Undefined

\* What holds of a call, and of a version check, in every state.
C21_Outcome ==
  /\ \A c \in Calls :
       dl[c].pc # "idle"
       => /\ (C21_RegistryUrl(dl[c].id) = Undefined /\ dl[c].own = Undefined)
               => /\ dl[c].pc = "done" /\ dl[c].result = Threw
                  /\ dl[c].status = 0 /\ dl[c].fetched = NoFile
                  /\ dl[c].read = NoFile /\ dl[c].unzipped = NoFile
          /\ (C21_RegistryUrl(dl[c].id) # Undefined /\ dl[c].own # Undefined)
               => dl[c].url = C21_RegistryUrl(dl[c].id)
          /\ dl[c].fetched # NoFile
               => /\ dl[c].url # Undefined
                  /\ dl[c].fetched \in Served(dl[c].url)
  /\ ( /\ obs.op = "doesComponentNeedDownload"
       /\ C21_RegistryUrl(obs.comp.identifier) = Undefined
       /\ obs.comp.download_url = Undefined )
     => obs.res = Threw

\* C21: when neither the registry nor the component's package info has a
\* download url, downloadComponentOffline and doesComponentNeedDownload throw:
\* the step at which they do changes nothing on the filesystem, fetches nothing
\* and returns no outcome; when both have one, the url fetched is the
\* registry's.
C21_NoUrlThrowsRegistryFirst ==
  /\ []C21_Outcome
  /\ [][\A c \in Calls :
          ( /\ dl'[c] # dl[c]
            /\ dl'[c].pc = "done"
            /\ C21_RegistryUrl(dl'[c].id) = Undefined
            /\ dl'[c].own = Undefined )
          => /\ UNCHANGED <<fsVars, thirdPartyIndexPaths>>
             /\ dl[c].pc \in {"idle", "done"}]_vars
  /\ [][( /\ obs'.op = "doesComponentNeedDownload"
          /\ obs'.res = Threw
          /\ obs'.comp.download_url = Undefined
          /\ C21_RegistryUrl(obs'.comp.identifier) = Undefined )
        => UNCHANGED <<fsVars, thirdPartyIndexPaths>>]_vars

\* A call for the registry editor made with a component that names a mirror as
\* its own download url has fetched from the registry's url.
C21_Witness ==
  \E c \in Calls :
    /\ dl[c].id = IdRegA
    /\ dl[c].own = "https://mirror/editor.zip"
    /\ dl[c].url = "https://registry/editor.zip"
    /\ dl[c].fetched # NoFile

\* The index path a preload finds on disk for an identifier: the manifest's
\* sn.main, else index.html.
C22_MainOnDisk(identifier) ==
  LET text == FileIn(installDir[identifier], <<"package.json">>) IN
  IF text = Undefined THEN "index.html"
  ELSE IF JSONParse(text).main = Undefined THEN "index.html"
  ELSE JSONParse(text).main

\* urlForComponent resolves a third-party component with the cached index path.
C22_ResolvesFromCache ==
  ( /\ obs.op = "urlForComponent"
    /\ obs.comp.identifier \notin RegistryIds
    /\ obs.comp.download_url # Undefined
    /\ ~(obs.comp.isTheme /\ obs.comp.isSystemTheme)
    /\ thirdPartyIndexPaths[obs.comp.identifier] # Undefined )
  => /\ obs.res = Success
     /\ obs.url[Len(obs.url)] = thirdPartyIndexPaths[obs.comp.identifier]

\* C22: the cache changes only in a step of preloadThirdPartyIndexPathFromDisk
\* (called directly or by getIndexFile), for that identifier alone and to the
\* manifest's sn.main or else index.html; uninstallComponent,
\* downloadComponentOffline and doesComponentNeedDownload leave it as it is; and
\* urlForComponent resolves a third-party identifier with the cached value,
\* whatever is installed by then.
C22_CacheWrittenByPreloadOnly ==
  /\ []C22_ResolvesFromCache
  /\ [][thirdPartyIndexPaths' # thirdPartyIndexPaths
        => /\ obs'.op \in {"preloadThirdPartyIndexPathFromDisk", "getIndexFile"}
           /\ \A i \in Ids \ {obs'.comp.identifier} :
                thirdPartyIndexPaths'[i] = thirdPartyIndexPaths[i]
           /\ thirdPartyIndexPaths'[obs'.comp.identifier]
                = C22_MainOnDisk(obs'.comp.identifier)]_vars
  /\ [][obs'.op \notin {"preloadThirdPartyIndexPathFromDisk", "getIndexFile"}
        => UNCHANGED thirdPartyIndexPaths]_vars

\* The third-party editor resolved with main.html, the entry point preloaded
\* from an install that has since been uninstalled.
C22_Witness ==
  /\ obs.op = "urlForComponent"
  /\ obs.comp.identifier = IdTp
  /\ ~(obs.comp.isTheme /\ obs.comp.isSystemTheme)
  /\ obs.res = Success
  /\ obs.url[Len(obs.url)] = "main.html"
  /\ ~installDir[IdTp].exists

\* The place of a uuid in the ascending order of the strings.
Rank(uuid) == CHOOSE i \in DOMAIN Uuids : Uuids[i] = uuid

\* The extension a section of listedSections was built for.
SectionUuid(section) ==
  CHOOSE u \in UuidSet : ListedSectionKey(u) = section.key

\* An executeAction call in this slot takes its last step.
Completes(s) == exec[s].pc = "afterRun" /\ exec'[s].pc = "done"

\* The extension sections are in ascending order of the extensions' uuids, and an
\* action is marked running only while a run of it is in progress.
C23_State ==
  /\ \A i, j \in DOMAIN listedSections :
       i < j => Rank(SectionUuid(listedSections[i]))
                  < Rank(SectionUuid(listedSections[j]))
  /\ \A u \in UuidSet :
       extensionActions[u].running = "true"
       => \E s \in ExecSlots :
            exec[s].uuid = u /\ exec[s].pc \in {"runAction", "afterRun"}

\* What each step does to the reload state and to the marks of the action.
C23_Step ==
  \* a set flag is cleared by starting a reload, and a reload that starts clears it
  /\ (shouldReloadListedSections /\ ~shouldReloadListedSections')
     => reloads' = reloads \cup {reloadListedExtensionUuid}
  /\ ~(reloads' \subseteq reloads) => ~shouldReloadListedSections'
  \* the flag is set by an action that completed without an error response only
  /\ (~shouldReloadListedSections /\ shouldReloadListedSections')
     => \E s \in ExecSlots : Completes(s) /\ exec[s].response = "ok"
  \* the sections change when a reload in flight settles only
  /\ listedSections' # listedSections => ~(reloads \subseteq reloads')
  /\ \A s \in ExecSlots :
       \* runAction is called with the action marked running
       /\ (exec[s].pc # "runAction" /\ exec'[s].pc = "runAction")
          => extensionActions'[exec'[s].uuid] = Marks("true", Undefined)
       \* success clears running and asks for a reload of the extension
       /\ (Completes(s) /\ exec[s].response = "ok")
          => /\ extensionActions'[exec[s].uuid] = Marks("false", Undefined)
             /\ shouldReloadListedSections'
             /\ reloadListedExtensionUuid' = exec[s].uuid
       \* an error response sets the error mark and asks for no reload
       /\ (Completes(s) /\ exec[s].response = "error")
          => /\ extensionActions'[exec[s].uuid] = Marks(Undefined, "true")
             /\ UNCHANGED <<shouldReloadListedSections, reloadListedExtensionUuid,
                            reloads, listedSections>>

\* C23: the sheet mounts with the reload-pending flag set and no sections; a set
\* flag leads to a reload, which clears it; the flag is set again by every action
\* that completes without an error response and by nothing else, an error
\* response leaving the reload state alone; the sections a reload gives are in
\* ascending order of the extensions' uuids.  runAction is called with the action
\* marked running; once it has returned, success leaves the action marked not
\* running and an error response leaves it with the error mark and no running
\* mark, and no action is marked running without a run of it in progress.
C23_ReloadAndMarks ==
  /\ (shouldReloadListedSections = TRUE /\ listedSections = <<>>)
  /\ []C23_State
  /\ [][C23_Step]_vars
  /\ ((shouldReloadListedSections = TRUE)
        ~> (shouldReloadListedSections = FALSE /\ reloads # {}))

\* The extensions came as f3b0, 0a1f; one action has completed without an error
\* and the reload it asked for has settled, another returned an error response.
C23_Witness ==
  /\ exec[1].pc = "done" /\ exec[1].response = "ok" /\ exec[1].uuid = "f3b0"
  /\ exec[2].pc = "done" /\ exec[2].response = "error" /\ exec[2].uuid = "0a1f"
  /\ reloadListedExtensionUuid = "f3b0"
  /\ ~shouldReloadListedSections /\ reloads = {}
  /\ Len(listedSections) = 2
  /\ listedSections[1].key = "listed-0a1f-section"
  /\ listedSections[2].key = "listed-f3b0-section"
  /\ extensionActions["f3b0"] = Marks("false", Undefined)
  /\ extensionActions["0a1f"] = Marks(Undefined, "true")

====
